---- MODULE Spec2Model ----
(***************************************************************************)
(* Job orchestration core of the Nextflow pipeline platform backend:       *)
(* the jobs table (db/models.py), the job endpoints of                      *)
(* app/routers/pipeline_router.py and the service functions of             *)
(* app/services/pipeline_service.py.                                       *)
(*                                                                         *)
(* Every request runs in its own AsyncSession (db/database.py get_db).     *)
(* Handlers that await between a read of a job row and a later write       *)
(* (submit, cancel) are split at those awaits; handlers that read the jobs *)
(* table once and never write (get, list, download) are one step.          *)
(***************************************************************************)
EXTENDS Integers, Sequences, FiniteSets, TLC

\* ------------------------------------------------------------------ bounds
MaxTime == 1          \* the clock runs over ticks 0..MaxTime
TicksPerSec == 1      \* clock ticks per wall-clock second
MaxJobs == 2          \* cap on the number of rows of the jobs table
MaxOffset == 1        \* offsets tried by List: 0..MaxOffset

\* ------------------------------------------------------- Python None values
NoTime == -1                  \* None in a DateTime column
NoStr == "None"               \* None in a String column
NoId == <<"None", 0, "">>     \* no job id

\* ------------------------------------------------------------ users table
Users == {"u1", "u2", "adm"}

role(u) == IF u = "adm" THEN "admin" ELSE "user"

\* user_id.hex[:6]: the first six hex digits of the user's UUID; two
\* distinct UUIDs may share them.
HexPrefix(u) == IF u = "adm" THEN "ad0000" ELSE "a1b2c3"

\* -------------------------------------------------------- pipelines table
\* No endpoint inserts, updates or deletes a pipeline row.
pipelines == {"p1"}

PipelineIds == {"p1", "p9"}   \* ids a request may name; "p9" has no row

\* The lookup with its where clause lost: some pipeline is always found
SelectPipelineAny(pid) == TRUE

\* select(Pipeline).where(Pipeline.id == pipeline_id) ... first() is not None
SelectPipeline(pid) == pid \in pipelines

\* ------------------------------------------------------------ job params
\* A Python value of the params field: None, a dict, a str, a list or
\* another type.  A dict is its set of <<key, value>> pairs.
PyNone == [kind |-> "none", pairs |-> {}, text |-> ""]

PyDict(p) == [kind |-> "dict", pairs |-> p, text |-> ""]

PyStr(t) == [kind |-> "str", pairs |-> {}, text |-> t]

PyList == [kind |-> "list", pairs |-> {}, text |-> ""]

PyInt == [kind |-> "int", pairs |-> {}, text |-> ""]

Genome == {<<"genome", "hg38">>}

\* params payloads a Submit request may carry
RawParams ==
    { PyNone, PyDict(Genome), PyInt, PyStr("{\"genome\":\"hg38\"}"),
      PyStr("not json"), PyStr("[1]"), PyStr("  ") }

\* str.strip() on the strings used here
strip(t) == IF t = "  " THEN "" ELSE t

\* json.loads on the strings used here: [ok, val]; ok = FALSE stands for
\* json.JSONDecodeError.
json_loads(t) ==
    CASE t = "{\"genome\":\"hg38\"}" -> [ok |-> TRUE, val |-> PyDict(Genome)]
      [] t = "\"abc\""               -> [ok |-> TRUE, val |-> PyStr("abc")]
      [] t = "[1]"                   -> [ok |-> TRUE, val |-> PyList]
      [] OTHER                       -> [ok |-> FALSE, val |-> PyNone]

\* bool(v) for a params value
Truthy(v) ==
    CASE v.kind = "none" -> FALSE
      [] v.kind = "dict" -> v.pairs # {}
      [] v.kind = "str"  -> v.text # ""
      [] OTHER           -> TRUE

\* The validator raising on what it cannot read as a mapping, so that
\* validation fails, instead of returning {}
validate_params_Raising(v) ==
    IF v.kind = "none" THEN PyDict({})
    ELSE IF v.kind = "str"
         THEN IF strip(v.text) # "" /\ json_loads(v.text).ok
              THEN json_loads(v.text).val
              ELSE PyList
    ELSE IF v.kind = "dict" THEN v
    ELSE PyList

\* PipelineSubmission.validate_params (pre=True validator)
validate_params(v) ==
    IF v.kind = "none" THEN PyDict({})
    ELSE IF v.kind = "str"
         THEN IF strip(v.text) # ""
              THEN IF json_loads(v.text).ok
                   THEN json_loads(v.text).val
                   ELSE PyDict({})
              ELSE PyDict({})
    ELSE IF v.kind = "dict" THEN v
    ELSE PyDict({})

\* The field type Union[Dict[str, Any], str] applied to the validator's
\* result: anything else is a request validation error (422).
ParamsFieldOk(v) == v.kind \in {"dict", "str"}

\* ------------------------------------------------------------- locations
S3_BUCKET == "nextflow-pipeline-data-nto15x4w"

Loc(scheme, root, kind, id) ==
    [scheme |-> scheme, root |-> root, kind |-> kind, id |-> id]

NoLoc == Loc("", NoStr, "", NoId)

\* The work location built without the job id
work_dir_NoJobId(id) == Loc("s3://", S3_BUCKET, "work", NoId)

work_dir(id) == Loc("s3://", S3_BUCKET, "work", id)

output_dir(id) == Loc("s3://", S3_BUCKET, "results", id)

\* -------------------------------------------------------------- job rows
\* Terminal with COMPLETED left out of the list
TerminalNoCompleted == {"FAILED", "CANCELLED"}

\* Terminal with CANCELLED left out of the list
TerminalNoCancelled == {"COMPLETED", "FAILED"}

\* The statuses after which cancel does nothing
Terminal == {"COMPLETED", "FAILED", "CANCELLED"}

Second(t) == t \div TicksPerSec

\* job_id = f"job-{now:%Y%m%d%H%M%S}-{user_id.hex[:6]}"
JobId(t, u) == <<"job", Second(t), HexPrefix(u)>>

Job(id, u, pid, st, p, msg, cr, up, ext, wd, od, sta, co, d) ==
    [id |-> id, user_id |-> u, pipeline_id |-> pid, status |-> st,
     params |-> p, message |-> msg, created_at |-> cr, updated_at |-> up,
     external_id |-> ext, work_dir |-> wd, output_dir |-> od,
     started_at |-> sta, completed_at |-> co, description |-> d]

NoJob ==
    Job(NoId, NoStr, NoStr, NoStr, PyNone, NoStr, NoTime, NoTime, NoStr,
        NoLoc, NoLoc, NoTime, NoTime, NoStr)

\* The row written by reset_db.py --with-sample-data
SampleId == <<"JOB", 0, "sample">>

SampleJob ==
    Job(SampleId, "adm", "p1", "COMPLETED", PyDict(Genome),
        "Job completed successfully", 0, 0, "workflow_12345",
        Loc("", "/tmp/nextflow", "work", NoId),
        Loc("", "/data/results", "job_12345", NoId),
        0, 0, "Test job for RNA-Seq analysis")

\* The users that submit jobs
Submitters == {"u1", "u2"}

\* An id that no job ever has
GhostId == <<"job", 0, "ffffff">>

\* Limits a List request may carry: one row a page, or room for every row
Limits == {1, MaxJobs}

\* Job ids a request may name
JobIds ==
    {SampleId, GhostId} \cup
    { JobId(t, u) : t \in 0..MaxTime, u \in Submitters }

Descriptions == {"API test job"}

\* ----------------------------------------------------- external executor
\* The workflow engine is outside the code, and no handler launches,
\* queries or cancels a run on it (run_pipeline: "Simulate async pipeline
\* execution by not waiting"; get_pipeline_status: "In a real
\* implementation, this would check the actual status").  What it would
\* report for the run of a job is the environment's state.
\* "unknown" stands for any report outside the executor's known vocabulary.
ExternalStates == {"queued", "running", "succeeded", "unknown"}

\* The status a report of the executor stands for
Canonical(ext) ==
    CASE ext = "queued"    -> "SUBMITTED"
      [] ext = "running"   -> "RUNNING"
      [] ext = "succeeded" -> "COMPLETED"
      [] OTHER             -> "RUNNING"

\* The report that follows a report as the run of a job goes on
NextExternal(ext) ==
    CASE ext = "queued"  -> "running"
      [] ext = "running" -> "succeeded"
      [] OTHER           -> ext

VARIABLES
    jobs,     \* the jobs table: job id -> row
    now,      \* the clock, in ticks
    sess,     \* per session: the request in flight and its ORM state
    resp,     \* the response produced by the latest step, NoResp if none
    executor  \* per job id: the state the external executor reports

vars == <<jobs, now, sess, resp, executor>>

\* The requests that can be in flight together, one AsyncSession each
Sessions == {"s1", "s2"}

\* ------------------------------------------------------------- sessions
\* A submission: the params payload as sent (raw) and the fields of the
\* validated PipelineSubmission
NoSub ==
    [raw |-> PyNone, pipeline_id |-> NoStr, params |-> PyNone,
     description |-> NoStr]

Idle == [pc |-> "idle", user |-> NoStr, jid |-> NoId, orm |-> NoJob,
         sub |-> NoSub]

\* ------------------------------------------------------------ responses
\* What a handler answers: the status code and, by handler, the status
\* and message of a cancel result, the JobResponse bodies, the url of a
\* download link.  The request is kept with it: the handler (op), the
\* requester, the job id, the pipeline id of a submission, offset and limit,
\* the params payload of a submission that failed validation.
Resp(op, user, jid, code) ==
    [op |-> op, user |-> user, jid |-> jid, code |-> code,
     status |-> NoStr, message |-> NoStr, body |-> <<>>, pid |-> NoStr,
     off |-> 0, lim |-> 0, url |-> NoLoc, raw |-> PyNone]

NoResp == Resp("none", NoStr, NoId, 0)

\* select(Job).where(Job.id == job_id) ... scalars().first()
SelectJob(j) == IF j \in DOMAIN jobs THEN jobs[j] ELSE NoJob

\* The access check with the role test inverted
DeniedRoleInverted(job, u) == job.user_id # u /\ role(u) = "admin"

\* The access check of the job handlers: neither the owner nor an admin
Denied(job, u) == job.user_id # u /\ role(u) # "admin"

\* params_data with the isinstance(dict) branch missing: only a str is
\* decoded, anything else is answered as {}
params_data_StrOnly(p) ==
    IF Truthy(p) /\ p.kind = "str" /\ json_loads(p.text).ok
    THEN json_loads(p.text).val
    ELSE PyDict({})

\* params_data of get_pipeline_job / list_pipeline_jobs
params_data(p) ==
    IF Truthy(p)
    THEN IF p.kind = "dict" THEN p
         ELSE IF p.kind = "str"
              THEN IF json_loads(p.text).ok THEN json_loads(p.text).val
                   ELSE PyDict({})
         ELSE PyDict({})
    ELSE PyDict({})

\* JobResponse(...) built from a row; the body of a job response
JobResponse(job) == [job EXCEPT !.params = params_data(job.params)]

Init ==
    /\ jobs \in { [j \in {} |-> NoJob], [j \in {SampleId} |-> SampleJob] }
    /\ now = 0
    /\ sess = [s \in Sessions |-> Idle]
    /\ resp = NoResp
    /\ executor = [j \in JobIds |->
                     IF j = SampleId THEN "succeeded" ELSE "queued"]

\* Time passes.
Tick ==
    /\ now < MaxTime
    /\ now' = now + 1
    /\ resp' = NoResp
    /\ UNCHANGED <<jobs, sess, executor>>

\* The run of a stored job goes on at the executor.
executor_progress(j) ==
    /\ j \in DOMAIN jobs
    /\ executor[j] # NextExternal(executor[j])
    /\ executor' = [executor EXCEPT ![j] = NextExternal(executor[j])]
    /\ resp' = NoResp
    /\ UNCHANGED <<jobs, now, sess>>

\* The handler made to overwrite the stored status of whatever job it
\* reads with the status the executor's report stands for
get_pipeline_job_Reconciling(u, j) ==
    LET job == SelectJob(j)
        st == Canonical(executor[j])
        ok == job # NoJob /\ ~Denied(job, u) /\ SelectPipeline(job.pipeline_id)
    IN
    /\ resp' =
         IF job = NoJob THEN Resp("get", u, j, 404)
         ELSE IF Denied(job, u) THEN Resp("get", u, j, 403)
         ELSE IF ~SelectPipeline(job.pipeline_id)
         THEN Resp("get", u, j, 404)
         ELSE [Resp("get", u, j, 200) EXCEPT
                 !.status = st,
                 !.body = <<JobResponse([job EXCEPT !.status = st])>>]
    /\ jobs' = IF ok THEN [jobs EXCEPT ![j].status = st] ELSE jobs
    /\ UNCHANGED <<now, sess, executor>>

\* The executor reports something unrecognized for a run not yet over.
executor_unrecognized(j) ==
    /\ j \in DOMAIN jobs
    /\ executor[j] \in {"queued", "running"}
    /\ executor' = [executor EXCEPT ![j] = "unknown"]
    /\ resp' = NoResp
    /\ UNCHANGED <<jobs, now, sess>>

\* The check of the owner made before the check that the job exists
get_pipeline_job_AuthFirst(u, j) ==
    LET job == SelectJob(j) IN
    /\ resp' =
         IF Denied(job, u) THEN Resp("get", u, j, 403)
         ELSE IF job = NoJob THEN Resp("get", u, j, 404)
         ELSE IF ~SelectPipeline(job.pipeline_id)
         THEN Resp("get", u, j, 404)
         ELSE [Resp("get", u, j, 200) EXCEPT
                 !.status = job.status, !.body = <<JobResponse(job)>>]
    /\ UNCHANGED <<jobs, now, sess, executor>>

\* GET /pipelines/jobs/{job_id}
get_pipeline_job(u, j) ==
    LET job == SelectJob(j) IN
    /\ resp' =
         IF job = NoJob THEN Resp("get", u, j, 404)
         ELSE IF Denied(job, u) THEN Resp("get", u, j, 403)
         ELSE IF ~SelectPipeline(job.pipeline_id)
         THEN Resp("get", u, j, 404)
         ELSE [Resp("get", u, j, 200) EXCEPT
                 !.status = job.status, !.body = <<JobResponse(job)>>]
    /\ UNCHANGED <<jobs, now, sess, executor>>

\* Request validation of the body of POST /pipelines/jobs: the validator's
\* result does not fit the params field, FastAPI answers 422 and the
\* handler does not run.
PipelineSubmission(u, pid, raw) ==
    /\ ~ParamsFieldOk(validate_params(raw))
    /\ resp' = [Resp("submit", u, NoId, 422) EXCEPT !.pid = pid, !.raw = raw]
    /\ UNCHANGED <<jobs, now, sess, executor>>

\* Rows of the jobs table plus the inserts still in flight
Pending == Cardinality(DOMAIN jobs)
           + Cardinality({s \in Sessions : sess[s].pc = "run_pipeline"})

\* POST /pipelines/jobs, up to the job id chosen by run_pipeline:
\* the pipeline lookup of the router, then job_id from the clock and the
\* user id.
submit_pipeline_job(s, u, pid, raw, desc) ==
    LET sub == [raw |-> raw, pipeline_id |-> pid,
                params |-> validate_params(raw), description |-> desc] IN
    /\ sess[s].pc = "idle"
    /\ Pending < MaxJobs
    /\ ParamsFieldOk(validate_params(raw))
    /\ IF ~SelectPipeline(pid)
       THEN /\ resp' = [Resp("submit", u, NoId, 404) EXCEPT !.pid = pid]
            /\ UNCHANGED sess
       ELSE /\ sess' = [sess EXCEPT ![s] =
                          [pc |-> "run_pipeline", user |-> u,
                           jid |-> JobId(now, u), orm |-> NoJob,
                           sub |-> sub]]
            /\ resp' = NoResp
    /\ UNCHANGED <<jobs, now, executor>>

\* The row added without a status, left to the column default
NewJobDefaultStatus(id, u, sub, t) ==
    Job(id, u, sub.pipeline_id, "PENDING", sub.params, NoStr, t, t, NoStr,
        work_dir(id), output_dir(id), NoTime, NoTime, sub.description)

\* The row run_pipeline adds: the columns it passes and the column defaults
NewJob(id, u, sub, t) ==
    Job(id, u, sub.pipeline_id, "SUBMITTED", sub.params, NoStr, t, t, NoStr,
        work_dir(id), output_dir(id), NoTime, NoTime, sub.description)

\* The row merged into the table: a row already stored under the id is
\* overwritten instead of the commit failing on the primary key
run_pipeline_Upsert(s, dbOk) ==
    LET r == sess[s]
        row == NewJob(r.jid, r.user, r.sub, now)
        failed == [Resp("submit", r.user, r.jid, 500) EXCEPT
                     !.pid = r.sub.pipeline_id] IN
    /\ r.pc = "run_pipeline"
    /\ IF ~SelectPipeline(r.sub.pipeline_id) \/ ~dbOk
       THEN /\ resp' = failed
            /\ sess' = [sess EXCEPT ![s] = Idle]
            /\ UNCHANGED jobs
       ELSE /\ jobs' = [j \in DOMAIN jobs \cup {r.jid} |->
                          IF j = r.jid THEN row ELSE jobs[j]]
            /\ sess' = [sess EXCEPT ![s] =
                          [r EXCEPT !.pc = "submit_return", !.orm = row]]
            /\ resp' = NoResp
    /\ UNCHANGED <<now, executor>>

\* The row written before the failing step, and left behind by it
run_pipeline_InsertBeforeFailure(s, dbOk) ==
    LET r == sess[s]
        row == NewJob(r.jid, r.user, r.sub, now)
        failed == [Resp("submit", r.user, r.jid, 500) EXCEPT
                     !.pid = r.sub.pipeline_id] IN
    /\ r.pc = "run_pipeline"
    /\ IF ~SelectPipeline(r.sub.pipeline_id) \/ r.jid \in DOMAIN jobs
       THEN /\ resp' = failed
            /\ sess' = [sess EXCEPT ![s] = Idle]
            /\ UNCHANGED jobs
       ELSE /\ jobs' = [j \in DOMAIN jobs \cup {r.jid} |->
                          IF j = r.jid THEN row ELSE jobs[j]]
            /\ sess' = [sess EXCEPT ![s] =
                          IF dbOk
                          THEN [r EXCEPT !.pc = "submit_return", !.orm = row]
                          ELSE Idle]
            /\ resp' = IF dbOk THEN NoResp ELSE failed
    /\ UNCHANGED <<now, executor>>

\* The insert made ON CONFLICT DO NOTHING: a taken primary key is not an
\* error, and the row already stored is returned as the created job
run_pipeline_IgnoreConflict(s, dbOk) ==
    LET r == sess[s]
        row == NewJob(r.jid, r.user, r.sub, now)
        failed == [Resp("submit", r.user, r.jid, 500) EXCEPT
                     !.pid = r.sub.pipeline_id] IN
    /\ r.pc = "run_pipeline"
    /\ IF ~SelectPipeline(r.sub.pipeline_id) \/ ~dbOk
       THEN /\ resp' = failed
            /\ sess' = [sess EXCEPT ![s] = Idle]
            /\ UNCHANGED jobs
       ELSE IF r.jid \in DOMAIN jobs
       THEN /\ sess' = [sess EXCEPT ![s] =
                          [r EXCEPT !.pc = "submit_return",
                                    !.orm = jobs[r.jid]]]
            /\ resp' = NoResp
            /\ UNCHANGED jobs
       ELSE /\ jobs' = [j \in DOMAIN jobs \cup {r.jid} |->
                          IF j = r.jid THEN row ELSE jobs[j]]
            /\ sess' = [sess EXCEPT ![s] =
                          [r EXCEPT !.pc = "submit_return", !.orm = row]]
            /\ resp' = NoResp
    /\ UNCHANGED <<now, executor>>

\* run_pipeline from its pipeline lookup on: a missing pipeline raises a
\* 404 that the router's except turns into a 500; then db.add(new_job),
\* commit, refresh.  The commit raises when the primary key is taken or
\* the database fails (dbOk = FALSE); both handlers turn the exception
\* into a 500.
run_pipeline(s, dbOk) ==
    LET r == sess[s]
        row == NewJob(r.jid, r.user, r.sub, now)
        failed == [Resp("submit", r.user, r.jid, 500) EXCEPT
                     !.pid = r.sub.pipeline_id] IN
    /\ r.pc = "run_pipeline"
    /\ IF ~SelectPipeline(r.sub.pipeline_id)
       THEN /\ resp' = failed
            /\ sess' = [sess EXCEPT ![s] = Idle]
            /\ UNCHANGED jobs
       ELSE IF r.jid \in DOMAIN jobs \/ ~dbOk
       THEN /\ resp' = failed
            /\ sess' = [sess EXCEPT ![s] = Idle]
            /\ UNCHANGED jobs
       ELSE /\ jobs' = [j \in DOMAIN jobs \cup {r.jid} |->
                          IF j = r.jid THEN row ELSE jobs[j]]
            /\ sess' = [sess EXCEPT ![s] =
                          [r EXCEPT !.pc = "submit_return", !.orm = row]]
            /\ resp' = NoResp
    /\ UNCHANGED <<now, executor>>

\* submit_pipeline_job after run_pipeline returned: the job is selected
\* again in the same session, whose identity map (expire_on_commit=False)
\* still holds the refreshed new_job, and the response is built from it.
\* json.loads on a str params raises, and a non-dict params fails the
\* response model; either way the answer is 500.
submit_return(s) ==
    LET r == sess[s]
        job == r.orm
        p == IF job.params.kind = "dict"
             THEN [ok |-> TRUE, val |-> job.params]
             ELSE IF job.params.kind = "str" /\ Truthy(job.params)
                  THEN json_loads(job.params.text)
             ELSE [ok |-> TRUE, val |-> PyDict({})] IN
    /\ r.pc = "submit_return"
    /\ resp' =
         IF p.ok /\ p.val.kind = "dict"
         THEN [Resp("submit", r.user, r.jid, 201) EXCEPT
                 !.pid = r.sub.pipeline_id,
                 !.status = job.status,
                 !.message = "Job submitted successfully",
                 !.body = <<[job EXCEPT !.params = p.val]>>]
         ELSE [Resp("submit", r.user, r.jid, 500) EXCEPT
                 !.pid = r.sub.pipeline_id]
    /\ sess' = [sess EXCEPT ![s] = Idle]
    /\ UNCHANGED <<jobs, now, executor>>

\* DELETE /pipelines/jobs/{job_id}, up to the call of cancel_pipeline
cancel_pipeline_job(s, u, j) ==
    LET job == SelectJob(j) IN
    /\ sess[s].pc = "idle"
    /\ IF job = NoJob
       THEN /\ resp' = Resp("cancel", u, j, 404)
            /\ UNCHANGED sess
       ELSE IF Denied(job, u)
       THEN /\ resp' = Resp("cancel", u, j, 403)
            /\ UNCHANGED sess
       ELSE IF job.status \in Terminal
       THEN /\ resp' = [Resp("cancel", u, j, 200) EXCEPT
                          !.status = job.status,
                          !.message = "Job is already in terminal state"]
            /\ UNCHANGED sess
       ELSE /\ sess' = [sess EXCEPT ![s] =
                          [pc |-> "cancel_pipeline", user |-> u, jid |-> j,
                           orm |-> job, sub |-> NoSub]]
            /\ resp' = NoResp
    /\ UNCHANGED <<jobs, now, executor>>

\* The DELETE endpoint made to delete the row instead of updating it
UpdateStatusDeleteRow(j, st, t) == [k \in DOMAIN jobs \ {j} |-> jobs[k]]

\* The UPDATE writing every column of a Job object built anew, its params
\* left at the empty default
UpdateStatusAllColumns(j, st, t) ==
    [jobs EXCEPT ![j].status = st, ![j].updated_at = t,
                 ![j].params = PyDict({})]

\* The status written in the spelling the tests expect ("canceled")
UpdateStatusCanceled(j, st, t) ==
    [jobs EXCEPT ![j].status = "canceled", ![j].updated_at = t]

\* The status assigned but never committed
UpdateStatusLost(j, st, t) == jobs

\* The UPDATE flushed by the commit of cancel_pipeline: the changed status
\* column and the onupdate of updated_at.
UpdateStatus(j, st, t) ==
    [jobs EXCEPT ![j].status = st, ![j].updated_at = t]

\* The status written through before the failing step, and left behind
cancel_pipeline_WriteBeforeFailure(s, dbOk) ==
    LET r == sess[s]
        job == r.orm IN
    /\ r.pc = "cancel_pipeline"
    /\ IF job.status \in Terminal
       THEN /\ resp' = [Resp("cancel", r.user, r.jid, 200) EXCEPT
                          !.status = job.status,
                          !.message = "Job already in terminal state"]
            /\ UNCHANGED jobs
       ELSE /\ jobs' = UpdateStatus(r.jid, "CANCELLED", now)
            /\ resp' = IF dbOk
                       THEN [Resp("cancel", r.user, r.jid, 200) EXCEPT
                               !.status = "CANCELLED",
                               !.message = "Job cancelled successfully"]
                       ELSE Resp("cancel", r.user, r.jid, 500)
    /\ sess' = [sess EXCEPT ![s] = Idle]
    /\ UNCHANGED <<now, executor>>

\* The commit of the cancel refused when the row changed since the
\* router read it (a version check on the UPDATE)
cancel_pipeline_StaleWriteRejected(s, dbOk) ==
    LET r == sess[s]
        job == r.orm IN
    /\ r.pc = "cancel_pipeline"
    /\ IF job.status \in Terminal
       THEN /\ resp' = [Resp("cancel", r.user, r.jid, 200) EXCEPT
                          !.status = job.status,
                          !.message = "Job already in terminal state"]
            /\ UNCHANGED jobs
       ELSE IF ~dbOk
       THEN /\ resp' = Resp("cancel", r.user, r.jid, 500)
            /\ UNCHANGED jobs
       ELSE IF jobs[r.jid] # job
       THEN /\ resp' = Resp("cancel", r.user, r.jid, 409)
            /\ UNCHANGED jobs
       ELSE /\ jobs' = UpdateStatus(r.jid, "CANCELLED", now)
            /\ resp' = [Resp("cancel", r.user, r.jid, 200) EXCEPT
                          !.status = "CANCELLED",
                          !.message = "Job cancelled successfully"]
    /\ sess' = [sess EXCEPT ![s] = Idle]
    /\ UNCHANGED <<now, executor>>

\* cancel_pipeline: the select in the session of the router returns the
\* Job object already in the identity map, with the attributes the router
\* loaded; the terminal check is made on it, then status is assigned and
\* committed.  dbOk = FALSE: the commit raises and the handler answers 500.
cancel_pipeline(s, dbOk) ==
    LET r == sess[s]
        job == r.orm IN
    /\ r.pc = "cancel_pipeline"
    /\ IF job.status \in Terminal
       THEN /\ resp' = [Resp("cancel", r.user, r.jid, 200) EXCEPT
                          !.status = job.status,
                          !.message = "Job already in terminal state"]
            /\ UNCHANGED jobs
       ELSE IF ~dbOk
       THEN /\ resp' = Resp("cancel", r.user, r.jid, 500)
            /\ UNCHANGED jobs
       ELSE /\ jobs' = UpdateStatus(r.jid, "CANCELLED", now)
            /\ resp' = [Resp("cancel", r.user, r.jid, 200) EXCEPT
                          !.status = "CANCELLED",
                          !.message = "Job cancelled successfully"]
    /\ sess' = [sess EXCEPT ![s] = Idle]
    /\ UNCHANGED <<now, executor>>

\* The rows selected without the filter on the owner
VisibleAll(u) == DOMAIN jobs

\* The rows selected by list_pipeline_jobs for the requester
Visible(u) ==
    IF role(u) = "admin" THEN DOMAIN jobs
    ELSE {j \in DOMAIN jobs : jobs[j].user_id = u}

\* The orders in which the database may return a set of rows when the
\* statement has no ORDER BY
Orders(S) ==
    {f \in [1..Cardinality(S) -> S] :
        \A a, b \in 1..Cardinality(S) : a # b => f[a] # f[b]}

Min(a, b) == IF a < b THEN a ELSE b

\* offset and limit taken one for the other
PageSwapped(order, off, lim) ==
    SubSeq(order, lim + 1, Min(lim + off, Len(order)))

\* .offset(offset).limit(limit) applied to the rows in the order returned
Page(order, off, lim) == SubSeq(order, off + 1, Min(off + lim, Len(order)))

\* GET /pipelines/jobs?offset=&limit=
list_pipeline_jobs(u, off, lim, order) ==
    LET page == Page(order, off, lim) IN
    /\ order \in Orders(Visible(u))
    /\ resp' = [Resp("list", u, NoId, 200) EXCEPT
                  !.off = off, !.lim = lim,
                  !.body = [i \in 1..Len(page) |->
                              JobResponse(jobs[page[i]])]]
    /\ UNCHANGED <<jobs, now, sess, executor>>

\* str.lower() on the status values in use
lower(st) ==
    CASE st = "COMPLETED" -> "completed"
      [] st = "SUBMITTED" -> "submitted"
      [] st = "CANCELLED" -> "cancelled"
      [] st = "FAILED"    -> "failed"
      [] st = "RUNNING"   -> "running"
      [] st = "PENDING"   -> "pending"
      [] OTHER            -> st

\* output_dir.replace("s3://", "https://download.example.com/")
download_url(loc) ==
    IF loc.scheme = "s3://"
    THEN [loc EXCEPT !.scheme = "https://download.example.com/"]
    ELSE loc

\* The issue of a link recorded on the row of the job
get_job_download_link_Recording(u, j) ==
    LET job == SelectJob(j)
        issued == /\ job # NoJob
                  /\ ~Denied(job, u)
                  /\ lower(job.status) = "completed"
                  /\ job.output_dir # NoLoc IN
    /\ resp' =
         IF job = NoJob THEN Resp("download", u, j, 404)
         ELSE IF Denied(job, u) THEN Resp("download", u, j, 403)
         ELSE IF lower(job.status) # "completed"
         THEN Resp("download", u, j, 400)
         ELSE IF job.output_dir = NoLoc THEN Resp("download", u, j, 404)
         ELSE [Resp("download", u, j, 200) EXCEPT
                 !.url = download_url(job.output_dir)]
    /\ jobs' = IF issued THEN [jobs EXCEPT ![j].updated_at = now] ELSE jobs
    /\ UNCHANGED <<now, sess, executor>>

\* GET /pipelines/jobs/{job_id}/download
get_job_download_link(u, j) ==
    LET job == SelectJob(j) IN
    /\ resp' =
         IF job = NoJob THEN Resp("download", u, j, 404)
         ELSE IF Denied(job, u) THEN Resp("download", u, j, 403)
         ELSE IF lower(job.status) # "completed"
         THEN Resp("download", u, j, 400)
         ELSE IF job.output_dir = NoLoc THEN Resp("download", u, j, 404)
         ELSE [Resp("download", u, j, 200) EXCEPT
                 !.url = download_url(job.output_dir)]
    /\ UNCHANGED <<jobs, now, sess, executor>>

\* No request is in flight
Quiet == \A s \in Sessions : sess[s].pc = "idle"

\* Requests handled one at a time, each begun when the one before it has
\* been answered, over the whole range of inputs; time passes at any point.
Next ==
    \/ Tick
    \/ /\ Quiet
       /\ \E u \in Submitters, pid \in PipelineIds, raw \in RawParams :
             PipelineSubmission(u, pid, raw)
    \/ /\ Quiet
       /\ \E u \in Submitters, pid \in PipelineIds, raw \in RawParams,
             d \in Descriptions :
             submit_pipeline_job("s1", u, pid, raw, d)
    \/ \E dbOk \in BOOLEAN : run_pipeline("s1", dbOk)
    \/ submit_return("s1")
    \/ /\ Quiet
       /\ \E u \in Users, j \in JobIds : get_pipeline_job(u, j)
    \/ /\ Quiet
       /\ \E u \in Users, j \in JobIds : cancel_pipeline_job("s1", u, j)
    \/ \E dbOk \in BOOLEAN : cancel_pipeline("s1", dbOk)
    \/ /\ Quiet
       /\ \E u \in Users, off \in 0..MaxOffset, lim \in Limits :
             \E order \in Orders(Visible(u)) :
                list_pipeline_jobs(u, off, lim, order)
    \/ /\ Quiet
       /\ \E u \in Users, j \in JobIds : get_job_download_link(u, j)

Spec == Init /\ [][Next]_vars

\* Two requests in flight together, their steps interleaved in every
\* order, over a narrower range of inputs: every submission carries the
\* same payload, and the read-only handlers are called by one user.
ConcReaders == {"u2"}

NextConc ==
    \/ Tick
    \/ \E u \in Submitters : PipelineSubmission(u, "p1", PyStr("[1]"))
    \/ \E s \in Sessions, u \in Submitters, d \in Descriptions :
          submit_pipeline_job(s, u, "p1", PyDict(Genome), d)
    \/ \E s \in Sessions, dbOk \in BOOLEAN : run_pipeline(s, dbOk)
    \/ \E s \in Sessions : submit_return(s)
    \/ \E u \in ConcReaders, j \in DOMAIN jobs : get_pipeline_job(u, j)
    \/ \E s \in Sessions, u \in Users, j \in DOMAIN jobs :
          cancel_pipeline_job(s, u, j)
    \/ \E s \in Sessions, dbOk \in BOOLEAN : cancel_pipeline(s, dbOk)
    \/ \E u \in ConcReaders :
          \E order \in Orders(Visible(u)) :
             list_pipeline_jobs(u, 0, MaxJobs, order)
    \/ \E u \in ConcReaders, j \in DOMAIN jobs : get_job_download_link(u, j)

SpecConc == Init /\ [][NextConc]_vars

\* The requests of one submitter and of an admin, one at a time, while the
\* runs of the stored jobs go on at the executor.
ExecUsers == {"u1", "adm"}

NextExec ==
    \/ Tick
    \/ /\ Quiet
       /\ \E d \in Descriptions :
             submit_pipeline_job("s1", "u1", "p1", PyDict(Genome), d)
    \/ \E dbOk \in BOOLEAN : run_pipeline("s1", dbOk)
    \/ submit_return("s1")
    \/ \E j \in DOMAIN jobs : executor_progress(j)
    \/ \E j \in DOMAIN jobs : executor_unrecognized(j)
    \/ /\ Quiet
       /\ \E u \in ExecUsers, j \in DOMAIN jobs : get_pipeline_job(u, j)
    \/ /\ Quiet
       /\ \E u \in ExecUsers, j \in DOMAIN jobs :
             cancel_pipeline_job("s1", u, j)
    \/ \E dbOk \in BOOLEAN : cancel_pipeline("s1", dbOk)

SpecExec == Init /\ [][NextExec]_vars

\* ------------------------------------------------------------------ claims

\* C1: once the stored status of a job is COMPLETED, FAILED or CANCELLED,
\* no step of any request, in any interleaving, changes it.
C1_TerminalStatusNeverChanges ==
    [][\A j \in DOMAIN jobs :
          jobs[j].status \in {"COMPLETED", "FAILED", "CANCELLED"}
          => /\ j \in DOMAIN jobs'
             /\ jobs'[j].status = jobs[j].status]_vars

\* C1 witness: a cancel that read the job as SUBMITTED is about to write
\* while the stored status is already CANCELLED.
C1_Witness ==
    \E s \in Sessions :
       /\ sess[s].pc = "cancel_pipeline"
       /\ sess[s].orm.status = "SUBMITTED"
       /\ jobs[sess[s].jid].status = "CANCELLED"

\* C2: completed_at is non-null exactly when the status is terminal.
C2_CompletedAtIffTerminal ==
    \A j \in DOMAIN jobs :
       (jobs[j].completed_at # NoTime)
       <=> jobs[j].status \in {"COMPLETED", "FAILED", "CANCELLED"}

\* C3: get and cancel on an existing job answer 200 only to the owner or
\* an admin; any other requester gets 403 and nothing is changed.
C3_OnlyOwnerOrAdmin ==
    [][(resp'.op \in {"get", "cancel"} /\ resp'.jid \in DOMAIN jobs)
       => LET job == jobs[resp'.jid]
              allowed == \/ job.user_id = resp'.user
                         \/ role(resp'.user) = "admin"
          IN /\ resp'.code = 200 => allowed
             /\ ~allowed => /\ resp'.code = 403
                            /\ jobs' = jobs
                            /\ sess' = sess]_vars

\* C3 witness: an ordinary user who is not the owner was refused the
\* cancel of a job that is still SUBMITTED.
C3_Witness ==
    /\ resp.op = "cancel"
    /\ resp.code = 403
    /\ resp.jid \in DOMAIN jobs
    /\ jobs[resp.jid].status = "SUBMITTED"
    /\ jobs[resp.jid].user_id # resp.user

\* C4: a list answered to a requester who is not admin holds only stored
\* jobs owned by the requester, whatever the offset and limit.
C4_ListOnlyOwnJobs ==
    (resp.op = "list" /\ role(resp.user) # "admin")
    => \A i \in 1..Len(resp.body) :
          /\ resp.body[i].user_id = resp.user
          /\ resp.body[i].id \in DOMAIN jobs
          /\ jobs[resp.body[i].id].user_id = resp.user

\* C4 witness: a non-empty list for an ordinary user while the table
\* holds a job of somebody else.
C4_Witness ==
    /\ resp.op = "list"
    /\ role(resp.user) # "admin"
    /\ Len(resp.body) >= 1
    /\ \E j \in DOMAIN jobs : jobs[j].user_id # resp.user

\* C5: a list with offset 0 and a limit of at least the number of stored
\* jobs holds every stored job once for an admin, and exactly the
\* requester's own jobs once for anybody else.
C5_ListComplete ==
    (resp.op = "list" /\ resp.off = 0
       /\ resp.lim >= Cardinality(DOMAIN jobs))
    => LET ids == {resp.body[i].id : i \in 1..Len(resp.body)}
           expected == IF role(resp.user) = "admin" THEN DOMAIN jobs
                       ELSE {j \in DOMAIN jobs :
                               jobs[j].user_id = resp.user}
       IN /\ ids = expected
          /\ Len(resp.body) = Cardinality(expected)
          /\ \A i \in 1..Len(resp.body) :
                /\ resp.body[i].user_id = jobs[resp.body[i].id].user_id
                /\ resp.body[i].status = jobs[resp.body[i].id].status

\* C5 witness: an admin got the whole table, two jobs of two owners.
C5_Witness ==
    /\ resp.op = "list"
    /\ role(resp.user) = "admin"
    /\ resp.off = 0
    /\ resp.lim >= Cardinality(DOMAIN jobs)
    /\ Len(resp.body) = 2
    /\ resp.body[1].user_id # resp.body[2].user_id

\* C6: a submit that names a pipeline without a row is answered 404, adds
\* no job and leaves no insert in flight; no job and no insert in flight
\* ever names such a pipeline.  (A body that fails validation is answered
\* 422 before the handler runs.)
C6_SubmitUnknownPipeline ==
    [][/\ (resp'.op = "submit" /\ resp'.pid \notin pipelines
             /\ resp'.code # 422)
          => (resp'.code = 404 /\ jobs' = jobs /\ sess' = sess)
       /\ \A s \in Sessions :
             sess'[s].pc \in {"run_pipeline", "submit_return"}
             => sess'[s].sub.pipeline_id \in pipelines
       /\ \A j \in DOMAIN jobs' : jobs'[j].pipeline_id \in pipelines]_vars

\* C6 witness: a 404 for an unknown pipeline while the table holds jobs.
C6_Witness ==
    /\ resp.op = "submit"
    /\ resp.code = 404
    /\ resp.pid \notin pipelines
    /\ DOMAIN jobs # {}

C8_ExternalIdAndStartedAtSet ==
    \A j \in DOMAIN jobs \ {SampleId} :
       /\ jobs[j].external_id # NoStr
       /\ jobs[j].started_at # NoTime

C10_CancelTerminalNoOp ==
    [][/\ (resp'.op = "cancel" /\ sess' = sess
             /\ resp'.jid \in DOMAIN jobs
             /\ jobs[resp'.jid].status
                  \in {"COMPLETED", "FAILED", "CANCELLED"}
             /\ (\/ jobs[resp'.jid].user_id = resp'.user
                 \/ role(resp'.user) = "admin"))
          => /\ resp'.code = 200
             /\ resp'.status = jobs[resp'.jid].status
             /\ jobs' = jobs
       /\ \A s \in Sessions :
             (sess[s].pc = "cancel_pipeline" /\ sess'[s].pc = "idle"
                /\ sess[s].orm.status
                     \in {"COMPLETED", "FAILED", "CANCELLED"})
             => /\ resp'.code = 200
                /\ resp'.status = sess[s].orm.status
                /\ jobs' = jobs
       /\ \A j \in DOMAIN jobs :
             jobs[j].completed_at # NoTime
             => jobs'[j].completed_at = jobs[j].completed_at]_vars

\* C10 witness: a second cancel of a job that an earlier cancel moved to
\* CANCELLED.
C10_Witness ==
    /\ resp.op = "cancel"
    /\ resp.code = 200
    /\ resp.message = "Job is already in terminal state"
    /\ jobs[resp.jid].status = "CANCELLED"

\* C11: a get answered 200 for a job whose stored status is COMPLETED,
\* FAILED or CANCELLED carries that stored status, whatever the executor
\* reports for the job, and changes neither the row nor anything else.
C11_GetTerminalReturnsStored ==
    [][(resp'.op = "get" /\ resp'.code = 200 /\ resp'.jid \in DOMAIN jobs
          /\ jobs[resp'.jid].status \in {"COMPLETED", "FAILED", "CANCELLED"})
       => /\ resp'.status = jobs[resp'.jid].status
          /\ Len(resp'.body) = 1
          /\ resp'.body[1].id = resp'.jid
          /\ resp'.body[1].status = jobs[resp'.jid].status
          /\ resp'.body[1].completed_at = jobs[resp'.jid].completed_at
          /\ resp'.body[1].updated_at = jobs[resp'.jid].updated_at
          /\ jobs' = jobs
          /\ sess' = sess
          /\ executor' = executor]_vars

\* C11 witness: a get answered for a CANCELLED job whose run the executor
\* reports as running.
C11_Witness ==
    /\ resp.op = "get"
    /\ resp.code = 200
    /\ resp.status = "CANCELLED"
    /\ executor[resp.jid] = "running"

\* C12: a get answered 200 for a job whose stored status is not terminal,
\* while the executor reports a state that stands for another status,
\* leaves that status stored and carries it; completed_at stays null when
\* that status is not terminal.
C12_GetReconcilesNonTerminal ==
    [][(resp'.op = "get" /\ resp'.code = 200 /\ resp'.jid \in DOMAIN jobs
          /\ jobs[resp'.jid].status \notin {"COMPLETED", "FAILED", "CANCELLED"}
          /\ Canonical(executor[resp'.jid]) # jobs[resp'.jid].status)
       => /\ jobs'[resp'.jid].status = Canonical(executor[resp'.jid])
          /\ resp'.status = Canonical(executor[resp'.jid])
          /\ Canonical(executor[resp'.jid])
                \notin {"COMPLETED", "FAILED", "CANCELLED"}
             => jobs'[resp'.jid].completed_at = NoTime]_vars

\* C13: when two gets of the same job, not FAILED or CANCELLED, are
\* answered 200 one right after the other while the executor reports the
\* run as succeeded, the stored status is then COMPLETED and completed_at
\* is set, and the second get has not assigned completed_at again.
C13_TwoGetsCompleteOnce ==
    [][(resp.op = "get" /\ resp.code = 200
          /\ resp'.op = "get" /\ resp'.code = 200 /\ resp'.jid = resp.jid
          /\ resp.jid \in DOMAIN jobs
          /\ jobs[resp.jid].status \notin {"FAILED", "CANCELLED"}
          /\ executor[resp.jid] = "succeeded")
       => /\ jobs'[resp.jid].status = "COMPLETED"
          /\ resp'.status = "COMPLETED"
          /\ jobs'[resp.jid].completed_at # NoTime
          /\ jobs[resp.jid].completed_at # NoTime
             => jobs'[resp.jid].completed_at = jobs[resp.jid].completed_at]_vars

C15_FailedCancelKeepsStatus ==
    [][\A s \in Sessions :
          (sess[s].pc = "cancel_pipeline" /\ sess'[s].pc = "idle"
             /\ resp'.code # 200)
          => /\ resp'.op = "cancel"
             /\ resp'.code = 500
             /\ resp'.jid = sess[s].jid
             /\ jobs' = jobs
             /\ jobs'[sess[s].jid].status = sess[s].orm.status
             /\ jobs'[sess[s].jid].status
                  \notin {"COMPLETED", "FAILED", "CANCELLED"}
             /\ sess'[s] = Idle]_vars

\* C15 witness: a cancel was answered 500 and the job is still SUBMITTED.
C15_Witness ==
    /\ resp.op = "cancel"
    /\ resp.code = 500
    /\ resp.jid \in DOMAIN jobs
    /\ jobs[resp.jid].status = "SUBMITTED"
    /\ \A s \in Sessions : sess[s].pc = "idle"

\* C16: every row is stored under its own id, and a row once stored stays
\* in the table as the same job (same id, owner, creation time, pipeline
\* and description): no later submit, by anybody, takes its id.
C16_JobIdNeverReused ==
    [][/\ \A j \in DOMAIN jobs' : jobs'[j].id = j
       /\ \A j \in DOMAIN jobs :
             /\ j \in DOMAIN jobs'
             /\ jobs'[j].user_id = jobs[j].user_id
             /\ jobs'[j].created_at = jobs[j].created_at
             /\ jobs'[j].pipeline_id = jobs[j].pipeline_id
             /\ jobs'[j].description = jobs[j].description]_vars

\* C16 witness: a submit chose the id of a job stored for another user and
\* was answered 500.
C16_Witness ==
    /\ resp.op = "submit"
    /\ resp.code = 500
    /\ resp.jid \in DOMAIN jobs
    /\ jobs[resp.jid].user_id # resp.user

C18_SubmittedFieldsImmutable ==
    [][\A j \in DOMAIN jobs :
          /\ j \in DOMAIN jobs'
          /\ jobs'[j].user_id = jobs[j].user_id
          /\ jobs'[j].pipeline_id = jobs[j].pipeline_id
          /\ jobs'[j].params = jobs[j].params
          /\ jobs'[j].work_dir = jobs[j].work_dir
          /\ jobs'[j].output_dir = jobs[j].output_dir]_vars

\* C18 witness: a further submit was answered 201 while the table holds a
\* job that a submit created, with params, and a cancel moved to CANCELLED.
C18_Witness ==
    /\ resp.op = "submit"
    /\ resp.code = 201
    /\ \E j \in DOMAIN jobs \ {SampleId, resp.jid} :
          /\ jobs[j].status = "CANCELLED"
          /\ jobs[j].params = PyDict(Genome)
          /\ jobs[j].work_dir # NoLoc

\* C19: the work location of every job created by a submit is
\* s3://<bucket>/work/<its id> and its output location is
\* s3://<bucket>/results/<its id>; no two stored jobs share a work
\* location or an output location.
C19_LocationsFromJobId ==
    /\ \A j \in DOMAIN jobs \ {SampleId} :
          /\ jobs[j].work_dir =
               [scheme |-> "s3://", root |-> "nextflow-pipeline-data-nto15x4w",
                kind |-> "work", id |-> jobs[j].id]
          /\ jobs[j].output_dir =
               [scheme |-> "s3://", root |-> "nextflow-pipeline-data-nto15x4w",
                kind |-> "results", id |-> jobs[j].id]
          /\ jobs[j].id = j
    /\ \A j, k \in DOMAIN jobs :
          j # k => /\ jobs[j].work_dir # jobs[k].work_dir
                   /\ jobs[j].output_dir # jobs[k].output_dir
                   /\ jobs[j].work_dir # jobs[k].output_dir

\* C19 witness: two jobs created by two submits.
C19_Witness ==
    Cardinality(DOMAIN jobs \ {SampleId}) >= 2

\* C20: in every list answered, a job that comes earlier in the page was
\* created no earlier than any job that comes after it.
C20_ListNewestFirst ==
    resp.op = "list"
    => \A a, b \in 1..Len(resp.body) :
          a < b => resp.body[a].created_at >= resp.body[b].created_at

\* C21: every list answered holds at most limit jobs; when a list is
\* answered right after another list of the same requester on the same
\* table, with the same limit, then at the same offset it is the same
\* sequence, and at the next offset (offset + limit) it shares no job with
\* the page before and, the table holding no more jobs than the two pages
\* have room for from offset 0, the two pages together hold every job
\* visible to the requester once.
C21_ListStableSlice ==
    [][/\ resp'.op = "list" => Len(resp'.body) <= resp'.lim
       /\ (resp.op = "list" /\ resp'.op = "list" /\ resp'.user = resp.user
             /\ resp'.lim = resp.lim /\ jobs' = jobs)
          => LET ids(b) == {b[i].id : i \in 1..Len(b)}
                 seen == {j \in DOMAIN jobs :
                            \/ role(resp.user) = "admin"
                            \/ jobs[j].user_id = resp.user}
             IN /\ resp'.off = resp.off => resp'.body = resp.body
                /\ resp'.off = resp.off + resp.lim
                   => /\ ids(resp'.body) \cap ids(resp.body) = {}
                      /\ (resp.off = 0
                            /\ Cardinality(seen) <= 2 * resp.lim)
                         => /\ ids(resp'.body) \cup ids(resp.body) = seen
                            /\ Len(resp'.body) + Len(resp.body)
                                 = Cardinality(seen)]_vars

\* C22: no step of any request removes a job: the set of stored job ids
\* after a step holds every id it held before.
C22_JobsNeverRemoved ==
    [][DOMAIN jobs \subseteq DOMAIN jobs']_vars

\* C22 witness: the DELETE endpoint has cancelled a job, and the table
\* holds it next to another job.
C22_Witness ==
    /\ resp.op = "cancel"
    /\ resp.message = "Job cancelled successfully"
    /\ resp.jid \in DOMAIN jobs
    /\ Cardinality(DOMAIN jobs) >= 2

\* C23: a mapping submitted as params, as a JSON object or as the text of
\* one, is what the insert stores; the stored params of a job are never
\* changed by a later step; and every get and list answers, for each job,
\* the params stored for it.
C23_ParamsRoundTrip ==
    [][/\ \A s \in Sessions :
             (sess[s].pc = "run_pipeline" /\ sess'[s].pc = "submit_return")
             => LET raw == sess[s].sub.raw
                    row == jobs'[sess[s].jid]
                IN /\ raw.kind = "dict" => row.params = raw
                   /\ raw = PyStr("{\"genome\":\"hg38\"}")
                      => row.params = PyDict({<<"genome", "hg38">>})
       /\ \A j \in DOMAIN jobs :
             j \in DOMAIN jobs' /\ jobs'[j].params = jobs[j].params
       /\ (resp'.op \in {"get", "list"} /\ resp'.code = 200)
          => \A i \in 1..Len(resp'.body) :
                /\ resp'.body[i].id \in DOMAIN jobs
                /\ jobs[resp'.body[i].id].params.kind = "dict"
                   => resp'.body[i].params
                        = jobs[resp'.body[i].id].params]_vars

\* C23 witness: a get answers the submitted mapping for a job that a
\* submit created and a cancel has since moved to CANCELLED.
C23_Witness ==
    /\ resp.op = "get"
    /\ resp.code = 200
    /\ resp.jid # SampleId
    /\ resp.status = "CANCELLED"
    /\ resp.body[1].params = PyDict(Genome)

\* C24: a submit whose params payload is malformed (a string that is not
\* valid JSON, or a value that is neither a mapping nor a string) is never
\* taken on: no request with such a payload gets to insert a job.
C24_MalformedParamsRejected ==
    \A s \in Sessions :
       sess[s].pc \in {"run_pipeline", "submit_return"}
       => LET raw == sess[s].sub.raw
          IN /\ raw.kind \in {"none", "dict", "str"}
             /\ raw.kind = "str" => json_loads(raw.text).ok

\* C24 as amended: a malformed params payload is never what a submit is
\* refused for (422); the submission is taken on with the empty mapping in
\* its place, the job is inserted with params {} and the 201 answer
\* carries params {}.
C24_MalformedParamsCoerced ==
    [][LET Malformed(raw) ==
              \/ raw.kind \notin {"none", "dict", "str"}
              \/ raw.kind = "str" /\ ~json_loads(raw.text).ok
       IN
       /\ (resp'.op = "submit" /\ resp'.code = 422) => ~Malformed(resp'.raw)
       /\ \A s \in Sessions :
             Malformed(sess[s].sub.raw)
             => /\ sess[s].pc \in {"run_pipeline", "submit_return"}
                /\ sess[s].sub.params = PyDict({})
                /\ (sess[s].pc = "run_pipeline"
                      /\ sess'[s].pc = "submit_return")
                   => /\ sess[s].jid \notin DOMAIN jobs
                      /\ jobs'[sess[s].jid].params = PyDict({})
                /\ (sess[s].pc = "submit_return" /\ sess'[s].pc = "idle")
                   => /\ resp'.op = "submit"
                      /\ resp'.code = 201
                      /\ resp'.body[1].id = sess[s].jid
                      /\ resp'.body[1].params = PyDict({})
                      /\ jobs[sess[s].jid].params = PyDict({})]_vars

\* C24 witness: a submit that sent a string that is not JSON has inserted
\* its job and is about to answer.
C24_Witness ==
    \E s \in Sessions :
       /\ sess[s].pc = "submit_return"
       /\ sess[s].sub.raw = PyStr("not json")
       /\ sess[s].jid \in DOMAIN jobs

\* C25: a get answered 200 for a job whose stored status is not terminal,
\* while the executor reports something unrecognized for it, treats the
\* job as RUNNING (stored and answered, with a message attached), leaves it
\* non-terminal and leaves completed_at null.
C25_UnrecognizedNeverTerminal ==
    [][(resp'.op = "get" /\ resp'.code = 200 /\ resp'.jid \in DOMAIN jobs
          /\ jobs[resp'.jid].status \notin {"COMPLETED", "FAILED", "CANCELLED"}
          /\ executor[resp'.jid] \notin {"queued", "running", "succeeded"})
       => /\ jobs'[resp'.jid].status
               \notin {"COMPLETED", "FAILED", "CANCELLED"}
          /\ jobs'[resp'.jid].completed_at = NoTime
          /\ resp'.body[1].completed_at = NoTime
          /\ jobs'[resp'.jid].status = "RUNNING"
          /\ resp'.status = "RUNNING"
          /\ resp'.body[1].message # NoStr]_vars

C27_InterleavedCancels ==
    [][\A s \in Sessions :
          LET j == sess[s].jid IN
          (/\ sess[s].pc = "cancel_pipeline"
           /\ \/ jobs[j].status = "CANCELLED"
              \/ \E t \in Sessions \ {s} :
                    sess[t].pc = "cancel_pipeline" /\ sess[t].jid = j)
          => /\ cancel_pipeline(s, TRUE)
                => /\ resp'.op = "cancel"
                   /\ resp'.jid = j
                   /\ resp'.code = 200
                   /\ resp'.status = "CANCELLED"
                   /\ jobs'[j].status = "CANCELLED"
             /\ sess'[s].pc = "idle"
                => /\ resp'.op = "cancel"
                   /\ resp'.code \in {200, 500}
                   /\ resp'.code = 200
                      => /\ resp'.status = "CANCELLED"
                         /\ jobs'[j].status = "CANCELLED"
                   /\ resp'.code = 500 => jobs' = jobs
             /\ jobs[j].status = "CANCELLED"
                => jobs'[j].status = "CANCELLED"]_vars

\* C27 witness: of two cancels of one job by different requesters, both
\* past the router, one has written CANCELLED and answered success while
\* the other is still in the service.
C27_Witness ==
    /\ resp.op = "cancel"
    /\ resp.code = 200
    /\ resp.message = "Job cancelled successfully"
    /\ jobs[resp.jid].status = "CANCELLED"
    /\ \E t \in Sessions :
          /\ sess[t].pc = "cancel_pipeline"
          /\ sess[t].jid = resp.jid
          /\ sess[t].user # resp.user

C29_ReadsChangeNoJob ==
    [][resp'.op \in {"get", "list", "download"} => jobs' = jobs]_vars

\* C29 witness: a download link has been issued for the completed job
\* while a job that is not terminal is stored as well.
C29_Witness ==
    /\ resp.op = "download"
    /\ resp.code = 200
    /\ jobs[resp.jid].status = "COMPLETED"
    /\ \E j \in DOMAIN jobs : jobs[j].status = "SUBMITTED"

\* C30: a get, a cancel or a download-link request for an id under which
\* no job is stored is answered 404, whoever asks; an answer of 403 is
\* given only for a stored job whose owner is not the requester.
C30_NotFoundBeforeForbidden ==
    resp.op \in {"get", "cancel", "download"}
    => /\ resp.jid \notin DOMAIN jobs => resp.code = 404
       /\ resp.code = 403
          => /\ resp.jid \in DOMAIN jobs
             /\ jobs[resp.jid].user_id # resp.user

\* C30 witness: a requester who is not an administrator asked for an id
\* under which nothing is stored, while a job of another user is stored,
\* and was answered 404.
C30_Witness ==
    /\ resp.op = "get"
    /\ resp.code = 404
    /\ role(resp.user) # "admin"
    /\ resp.jid \notin DOMAIN jobs
    /\ \E j \in DOMAIN jobs : jobs[j].user_id # resp.user
====
